---- MODULE Spec2Model ----
(***************************************************************************)
(* The semantic document search backend:                                   *)
(*   TextExtractionService.chunkText      (window loop over the text)      *)
(*   DocumentProcessingService.processDocument / #saveChunksWithEmbeddings *)
(*   DocumentProcessingService.deleteDocument                              *)
(*   the document_chunks table and its INSERT ... ON CONFLICT statement    *)
(*   RedisClient.get / set / delPattern and the entries on the server      *)
(*   SearchService.search / hybridSearch and the resolver Query.search     *)
(*                                                                         *)
(* Strings are held in a sparse form: a record with the length of the      *)
(* string and, for each character other than the letter "a", the set of    *)
(* 0-based positions at which it occurs.  Every string over the alphabet   *)
(* {"a", ".", "\n", " "} has exactly one such record.                      *)
(***************************************************************************)
EXTENDS Integers, Sequences, FiniteSets, TLC

VARIABLES
    text,        \* chunkText: the `text` argument; processDocument: the extracted text
    chunkSize,   \* chunkText: the `chunkSize` argument
    overlap,     \* chunkText: the `overlap` argument
    start,       \* chunkText: the local `start`
    chunks,      \* chunkText: the local `chunks`, then the returned array
    windows,     \* history: the [from, to) offsets of every slice taken from text
    cpc,         \* chunkText: "entry", "loop" or "done"
    pc,          \* processDocument: "idle", "saveDocument", "embed", "save", "invalidate", "done", "failed"
    savedDocument,  \* processDocument: id of the Document row saved by this run (0: none yet)
    documents,   \* the documents table
    store,       \* the document_chunks table
    i,           \* processDocument: the batch loop variable
    responses,   \* history: what the embedding provider answered for each batch so far
    chunkEntities,  \* processDocument: the entities built for the current batch
    j,           \* #saveChunksWithEmbeddings: number of entities of the batch already written
    error,       \* processDocument: class of the error thrown ("none": nothing thrown)
    nextId,      \* the next fresh row id (stands for gen_random_uuid / crypto.randomUUID)
    cache,       \* the entries held by the Redis server
    redisReady,  \* RedisClient.isReady()
    spc,         \* search / hybridSearch: position of the call
    request,     \* search / hybridSearch: the method called and its arguments
    cacheKey,    \* search / hybridSearch: the local `cacheKey`
    queryEmbedding,  \* search / hybridSearch: the local `queryEmbedding`
    results,     \* search / hybridSearch: the returned array
    calls,       \* history: the calls made to Redis, to the embedding provider and to the database
    thrown,      \* search / hybridSearch: the error thrown (NoError: nothing thrown)
    input,       \* the resolver Query.search: the `input` argument received
    qa,          \* answerQuestion: position of the call, its return value or error
    late         \* history: the call under way began after deleteDocument had returned

cvars == <<text, chunkSize, overlap, start, chunks, windows, cpc>>

pvars == <<pc, savedDocument, documents, store, i, responses, chunkEntities, j, error, nextId>>

kvars == <<cache, redisReady>>

svars == <<spc, request, cacheKey, queryEmbedding, results, calls, thrown>>

qvars == <<input, qa, late>>

vars == <<cvars, pvars, kvars, svars, qvars>>

(***************************************************************************)
(* Bounds                                                                  *)
(***************************************************************************)
MaxLen == 6          \* longest text given to chunkText in SpecChunk
MaxChunkSize == 5    \* largest chunkSize given to chunkText in SpecChunk
MaxPush == MaxLen + 1  \* a loop that advances pushes at most MaxLen chunks; a stuck loop is cut here

Alphabet == {"a", ".", "\n", " "}

(***************************************************************************)
(* The Redis cache behind RedisClient                                      *)
(*                                                                         *)
(* A key is its prefix ("search" or "documents") and the rest of the key.  *)
(* The rest of a search key is an md5 digest; md5 is taken as injective,   *)
(* so the digest is held as the string that was digested: the question     *)
(* and the list of the other properties in the order JSON.stringify wrote   *)
(* them.  A value is the stored JSON string: whether JSON.parse accepts it  *)
(* and the array it parses to.                                              *)
(***************************************************************************)
NoDigest == [question |-> <<>>, props |-> <<>>]
NoKey == [prefix |-> "", hash |-> NoDigest]
DocumentsKey == [prefix |-> "documents", hash |-> NoDigest]

\* the keys that client.keys(prefix + ":*") returns
Keys(entries, prefix) == {e.key : e \in {x \in entries : x.key.prefix = prefix}}

\* RedisClient.delPattern(prefix + ":*"): the entries left on the server.
\* `fails`: client.keys or client.del throws; the catch returns 0.
DelPattern(entries, prefix, ready, fails) ==
    IF ~ready THEN entries
    ELSE IF fails THEN entries
    ELSE {e \in entries : e.key \notin Keys(entries, prefix)}

\* no call of search or hybridSearch is under way
NoRequest == [method |-> "none", via |-> "", query |-> <<>>, options |-> <<>>]

\* an error: its class and, for SearchError, what its message is about
Err(class, message) == [class |-> class, message |-> message]
NoError == Err("none", "")

\* no GraphQL input was received; answerQuestion is not under way
NoInput == [query |-> <<>>, limit |-> [kind |-> "undefined", num |-> 0],
            threshold |-> [kind |-> "undefined", num |-> 0],
            documentId |-> [kind |-> "undefined", num |-> 0], hybrid |-> FALSE]
NoAnswer == [pc |-> "idle", context |-> <<>>, answer |-> "", sources |-> <<>>, error |-> "none"]

NoSearch ==
    /\ input = NoInput
    /\ qa = NoAnswer
    /\ late = FALSE
    /\ spc = "idle"
    /\ request = NoRequest
    /\ cacheKey = NoKey
    /\ queryEmbedding = <<>>
    /\ results = <<>>
    /\ calls = <<>>
    /\ thrown = NoError

(***************************************************************************)
(* Strings                                                                 *)
(***************************************************************************)
SetMax(S) == CHOOSE x \in S : \A y \in S : y <= x
SetMin(S) == CHOOSE x \in S : \A y \in S : x <= y
Max2(a, b) == IF a >= b THEN a ELSE b
Min2(a, b) == IF a <= b THEN a ELSE b

EmptyStr == [len |-> 0, dot |-> {}, nl |-> {}, sp |-> {}]

\* the string whose i-th character (1-based) is s[i]
FromSeq(s) ==
    [len |-> Len(s),
     dot |-> {q - 1 : q \in {k \in 1..Len(s) : s[k] = "."}},
     nl  |-> {q - 1 : q \in {k \in 1..Len(s) : s[k] = "\n"}},
     sp  |-> {q - 1 : q \in {k \in 1..Len(s) : s[k] = " "}}]

\* String.prototype.slice(a, b): negative offsets count from the end,
\* offsets are clamped to [0, len], an inverted range is empty
SliceIndex(t, a) == IF a < 0 THEN Max2(t.len + a, 0) ELSE Min2(a, t.len)

Slice(t, a, b) ==
    LET from == SliceIndex(t, a)
        to   == SliceIndex(t, b)
        keep(S) == {p - from : p \in {q \in S : q >= from /\ q < to}}
    IN  IF to <= from THEN EmptyStr
        ELSE [len |-> to - from, dot |-> keep(t.dot), nl |-> keep(t.nl), sp |-> keep(t.sp)]

\* String.prototype.lastIndexOf of a one-character needle: -1 when absent
LastIndexOf(positions) == IF positions = {} THEN -1 ELSE SetMax(positions)

\* positions of the white space characters of t
WhiteSpace(t) == t.sp \cup t.nl

\* String.prototype.trim: the slice from the first to the last character that
\* is not white space.  The first such character is at 0 or right after a
\* white space character, the last at len - 1 or right before one.
Trim(t) ==
    LET ws     == WhiteSpace(t)
        firsts == {p \in {0} \cup {q + 1 : q \in ws} : p \notin ws /\ p < t.len}
        lasts  == {p \in {t.len - 1} \cup {q - 1 : q \in ws} : p \notin ws /\ p >= 0}
    IN  IF firsts = {} THEN EmptyStr
        ELSE Slice(t, SetMin(firsts), SetMax(lasts) + 1)

(***************************************************************************)
(* TextExtractionService.chunkText                                         *)
(***************************************************************************)
\* the early-return test of chunkText
ShortText_Strict(t, size) == t.len < size
ShortText(t, size) == t.len <= size

\* One pass through the body of the while loop, from `start` s:
\* the slice taken, the chunk pushed and the next value of `start`.
NextWindow_NoTrim(t, size, ov, s) ==
    LET end      == Min2(s + size, t.len)
        chunk    == Slice(t, s, end)
        boundary == Max2(LastIndexOf(chunk.dot), LastIndexOf(chunk.nl))
    IN  IF end < t.len
        THEN IF 2 * boundary > size
             THEN [from |-> s, to |-> s + boundary + 1,
                   chunk |-> Slice(t, s, s + boundary + 1),
                   start |-> s + boundary + 1 - ov]
             ELSE [from |-> s, to |-> end, chunk |-> chunk, start |-> end - ov]
        ELSE [from |-> s, to |-> end, chunk |-> chunk, start |-> end]

NextWindow(t, size, ov, s) ==
    LET end      == Min2(s + size, t.len)
        chunk    == Slice(t, s, end)
        boundary == Max2(LastIndexOf(chunk.dot), LastIndexOf(chunk.nl))
    IN  IF end < t.len
        THEN IF 2 * boundary > size
             THEN [from |-> s, to |-> s + boundary + 1,
                   chunk |-> Trim(Slice(t, s, s + boundary + 1)),
                   start |-> s + boundary + 1 - ov]
             ELSE [from |-> s, to |-> end, chunk |-> Trim(chunk), start |-> end - ov]
        ELSE [from |-> s, to |-> end, chunk |-> Trim(chunk), start |-> end]

\* chunks.filter((chunk) => chunk.length > 0)
FilterNonEmpty(cs) == SelectSeq(cs, LAMBDA c : c.len > 0)

\* the call chunkText(text, chunkSize, overlap) is entered
Enter ==
    /\ cpc = "entry"
    /\ IF ShortText(text, chunkSize)
       THEN /\ chunks' = <<text>>
            /\ cpc' = "done"
       ELSE /\ chunks' = <<>>
            /\ cpc' = "loop"
    /\ start' = 0
    /\ UNCHANGED <<text, chunkSize, overlap, windows, pvars, kvars, svars, qvars>>

\* one iteration of `while (start < text.length)`
LoopStep ==
    /\ cpc = "loop"
    /\ start < text.len
    /\ Len(chunks) < MaxPush
    /\ LET w == NextWindow(text, chunkSize, overlap, start)
       IN  /\ chunks' = Append(chunks, w.chunk)
           /\ windows' = Append(windows, [from |-> w.from, to |-> w.to])
           /\ start' = w.start
    /\ UNCHANGED <<text, chunkSize, overlap, cpc, pvars, kvars, svars, qvars>>

\* the loop condition fails: return chunks.filter(...)
Return ==
    /\ cpc = "loop"
    /\ ~(start < text.len)
    /\ chunks' = FilterNonEmpty(chunks)
    /\ cpc' = "done"
    /\ UNCHANGED <<text, chunkSize, overlap, start, windows, pvars, kvars, svars, qvars>>

(***************************************************************************)
(* Properties of chunkText (checked under SpecChunk)                       *)
(***************************************************************************)
\* the slice of text that window k was taken from
WindowSlice(k) == Slice(text, windows[k].from, windows[k].to)

\* a string that is non-empty and has no white space at either end
IsTrimmed(c) == c.len > 0 /\ 0 \notin WhiteSpace(c) /\ (c.len - 1) \notin WhiteSpace(c)

\* C1: with 0 <= overlap < chunkSize, every iteration of the window loop
\* leaves `start` strictly greater than it found it (so the loop terminates).
C1_StartStrictlyIncreases ==
    [][(cpc = "loop" /\ cpc' = "loop" /\ 0 <= overlap /\ overlap < chunkSize)
          => start' > start]_vars

\* C2 as stated: every chunk returned by chunkText is non-empty and equals
\* its own trim, also when the text is not longer than chunkSize.
C2_EveryChunkTrimmed ==
    cpc = "done" => \A k \in 1..Len(chunks) : IsTrimmed(chunks[k])

\* C2 amended: every chunk returned for a text longer than chunkSize is
\* non-empty and equals its own trim.
C2_LongTextChunksTrimmed ==
    (cpc = "done" /\ text.len > chunkSize)
        => \A k \in 1..Len(chunks) : IsTrimmed(chunks[k])

\* a long text was chunked, one of its windows began with white space and
\* another was white space only (dropped from the result)
C2_Witness ==
    /\ cpc = "done"
    /\ text.len > chunkSize
    /\ Len(chunks) >= 1
    /\ Len(chunks) < Len(windows)
    /\ \E k \in 1..Len(windows) :
          WindowSlice(k).len > 0 /\ ~IsTrimmed(WindowSlice(k)) /\ Trim(WindowSlice(k)).len > 0

\* C3: a text not longer than chunkSize comes back as the one-element
\* sequence holding that text, unchanged.
C3_ShortTextUnchanged ==
    (cpc = "done" /\ text.len <= chunkSize) => chunks = <<text>>

\* a text exactly chunkSize long with white space at both ends was returned
C3_Witness ==
    /\ cpc = "done"
    /\ text.len = chunkSize
    /\ 0 \in WhiteSpace(text)
    /\ (text.len - 1) \in WhiteSpace(text)
    /\ chunks = <<text>>

\* C4: for a text longer than chunkSize every chunk is the trim of a
\* contiguous substring of text, the windows are taken in increasing order
\* of their start offset, each window starts at or before the end of the one
\* before it, and consecutive windows share at most `overlap` characters.
C4_WindowsInOrder ==
    text.len > chunkSize =>
        /\ \A k \in 1..Len(windows) :
              /\ 0 <= windows[k].from
              /\ windows[k].from < windows[k].to
              /\ windows[k].to <= text.len
        /\ cpc = "loop" =>
              /\ Len(chunks) = Len(windows)
              /\ \A k \in 1..Len(windows) : chunks[k] = Trim(WindowSlice(k))
        /\ cpc = "done" =>
              chunks = FilterNonEmpty([k \in 1..Len(windows) |-> Trim(WindowSlice(k))])
        /\ \A k \in 1..(Len(windows) - 1) :
              /\ windows[k].from < windows[k + 1].from
              /\ windows[k + 1].from <= windows[k].to
              /\ Min2(windows[k].to, windows[k + 1].to)
                    - Max2(windows[k].from, windows[k + 1].from) <= overlap

InitChunk ==
    /\ \E n \in 0..MaxLen : \E s \in [1..n -> Alphabet] : text = FromSeq(s)
    /\ chunkSize \in 1..MaxChunkSize
    /\ overlap \in 0..(chunkSize - 1)
    /\ start = 0
    /\ chunks = <<>>
    /\ windows = <<>>
    /\ cpc = "entry"
    /\ pc = "idle"
    /\ savedDocument = 0
    /\ documents = {}
    /\ store = {}
    /\ i = 0
    /\ responses = <<>>
    /\ chunkEntities = <<>>
    /\ j = 0
    /\ error = "none"
    /\ nextId = 1
    /\ cache = {}
    /\ redisReady = TRUE
    /\ NoSearch

NextChunk == Enter \/ LoopStep \/ Return

SpecChunk == InitChunk /\ [][NextChunk]_vars

(***************************************************************************)
(* TextExtractionService.chunkText as one call (used by processDocument)   *)
(***************************************************************************)
RECURSIVE ChunkLoop(_, _, _, _, _)
ChunkLoop(t, size, ov, s, acc) ==
    IF s < t.len
    THEN LET w == NextWindow(t, size, ov, s)
         IN  ChunkLoop(t, size, ov, w.start, Append(acc, w.chunk))
    ELSE FilterNonEmpty(acc)

ChunkText(t, size, ov) ==
    IF ShortText(t, size) THEN <<t>> ELSE ChunkLoop(t, size, ov, 0, <<>>)

(***************************************************************************)
(* Embedding provider responses                                            *)
(***************************************************************************)
VectorDim == 2       \* dimension of the embedding column (scaled down)

\* values of type number | number[] | number[][] | null
Num(n)  == [kind |-> "number", num |-> n, items |-> <<>>]
Arr(s)  == [kind |-> "array", num |-> 0, items |-> s]
Null    == [kind |-> "null", num |-> 0, items |-> <<>>]

\* component d of the vector the provider computes for the chunk with global index k
Val(k, d) == 10 * (k + 1) + d

RawFlat(k)   == Arr([d \in 1..VectorDim |-> Num(Val(k, d))])
RawNested(k) == Arr(<<Arr([d \in 1..(VectorDim - 1) |-> Num(Val(k, d))]),
                      Arr(<<Num(Val(k, VectorDim))>>)>>)
RawScalar(k) == Num(Val(k, 1))
RawEmpty     == Arr(<<>>)
RawNestedEmpty == Arr(<<Arr(<<>>)>>)

OddShapes == {"nested", "scalar", "null", "empty", "nestedEmpty"}

RawOf(shape, k) ==
    CASE shape = "flat"        -> RawFlat(k)
      [] shape = "nested"      -> RawNested(k)
      [] shape = "scalar"      -> RawScalar(k)
      [] shape = "null"        -> Null
      [] shape = "empty"       -> RawEmpty
      [] shape = "nestedEmpty" -> RawNestedEmpty

\* a response for m texts starting at global index k0: every element flat
AllFlat(m, k0) == [p \in 1..m |-> RawFlat(k0 + p - 1)]

\* What featureExtraction can do for a batch of m texts: throw, answer with
\* something that is not an array, answer with too few or too many
\* elements, or answer with m elements of which at most one (the first or
\* the last) is not a flat vector.
ProviderOutcomes(m, k0) ==
    {[kind |-> "throw", value |-> <<>>], [kind |-> "notArray", value |-> <<>>]}
    \cup {[kind |-> "array", value |-> AllFlat(m, k0)]}
    \cup {[kind |-> "array", value |-> SubSeq(AllFlat(m, k0), 1, m - 1)]}
    \cup {[kind |-> "array", value |-> Append(AllFlat(m, k0), RawFlat(k0 + m))]}
    \cup {[kind |-> "array",
           value |-> [AllFlat(m, k0) EXCEPT ![p] = RawOf(shape, k0 + p - 1)]] :
             p \in {1, m}, shape \in OddShapes}

(***************************************************************************)
(* OpenAIService.generateEmbeddings (HuggingFaceAIService.ts)               *)
(***************************************************************************)
\* !t || t.trim().length === 0
IsBlank(t) == t.len = 0 \/ Trim(t).len = 0

\* the value returned, or the error thrown, for the given texts when the
\* provider behaves as `outcome`
generateEmbeddings(texts, outcome) ==
    IF Len(texts) = 0 \/ \E p \in 1..Len(texts) : IsBlank(texts[p])
    THEN [ok |-> FALSE, value |-> <<>>, error |-> "EmbeddingGenerationError"]
    ELSE IF outcome.kind # "array"
    THEN [ok |-> FALSE, value |-> <<>>, error |-> "EmbeddingGenerationError"]
    ELSE IF Len(outcome.value) # Len(texts)
    THEN [ok |-> FALSE, value |-> <<>>, error |-> "EmbeddingGenerationError"]
    ELSE [ok |-> TRUE, value |-> outcome.value, error |-> "none"]

(***************************************************************************)
(* DocumentProcessingService.processDocument                               *)
(***************************************************************************)
TargetSize == 1000
Overlap == 200
batchSize == 10

ToNumbers(items) == [p \in 1..Len(items) |-> items[p].num]

\* Array.prototype.flat(): one level of nesting removed
RECURSIVE Flat(_)
Flat(items) ==
    IF items = <<>> THEN <<>>
    ELSE (IF Head(items).kind = "array"
          THEN ToNumbers(Head(items).items)
          ELSE <<Head(items).num>>) \o Flat(Tail(items))

\* the normalisation of one element of the response (the body of batch.map)
Normalize_NullAsZero(rawEmbedding) ==
    IF rawEmbedding.kind = "null"
    THEN [ok |-> TRUE, embedding |-> [d \in 1..VectorDim |-> 0], error |-> "none"]
    ELSE LET embedding ==
                 IF rawEmbedding.kind = "array"
                 THEN IF Len(rawEmbedding.items) > 0 /\ rawEmbedding.items[1].kind = "array"
                      THEN Flat(rawEmbedding.items)
                      ELSE ToNumbers(rawEmbedding.items)
                 ELSE <<rawEmbedding.num>>
         IN  IF Len(embedding) = 0
             THEN [ok |-> FALSE, embedding |-> <<>>, error |-> "Error"]
             ELSE [ok |-> TRUE, embedding |-> embedding, error |-> "none"]

Normalize(rawEmbedding) ==
    IF rawEmbedding.kind = "null"
    THEN [ok |-> FALSE, embedding |-> <<>>, error |-> "EmbeddingGenerationError"]
    ELSE LET embedding ==
                 IF rawEmbedding.kind = "array"
                 THEN IF Len(rawEmbedding.items) > 0 /\ rawEmbedding.items[1].kind = "array"
                      THEN Flat(rawEmbedding.items)
                      ELSE ToNumbers(rawEmbedding.items)
                 ELSE <<rawEmbedding.num>>
         IN  IF Len(embedding) = 0
             THEN [ok |-> FALSE, embedding |-> <<>>, error |-> "Error"]
             ELSE [ok |-> TRUE, embedding |-> embedding, error |-> "none"]

\* chunkIndex: i + index (index is the 0-based position in the batch)
ChunkIndexOf_BatchLocal(base, index) == index
ChunkIndexOf_OneBased(base, index) == base + index + 1
ChunkIndexOf(base, index) == base + index

\* batch.map(...): the entities of the batch, or the first error thrown.
\* chunkRepository.create is given `document: savedDocument`; the documentId
\* that #saveChunksWithEmbeddings reads is the id of that relation.
BuildEntities_NoDocument(batch, embeddings, base, doc) ==
    LET norm == [p \in 1..Len(batch) |-> Normalize(embeddings[p])]
        bad  == {p \in 1..Len(batch) : ~norm[p].ok}
    IN  IF bad # {}
        THEN [ok |-> FALSE, entities |-> <<>>, error |-> norm[SetMin(bad)].error]
        ELSE [ok |-> TRUE,
              entities |-> [p \in 1..Len(batch) |->
                              [documentId |-> 0,
                               chunkText  |-> batch[p],
                               chunkIndex |-> ChunkIndexOf(base, p - 1),
                               embedding  |-> norm[p].embedding,
                               metadata   |-> [chunkLength |-> batch[p].len]]],
              error |-> "none"]
BuildEntities(batch, embeddings, base, doc) ==
    LET norm == [p \in 1..Len(batch) |-> Normalize(embeddings[p])]
        bad  == {p \in 1..Len(batch) : ~norm[p].ok}
    IN  IF bad # {}
        THEN [ok |-> FALSE, entities |-> <<>>, error |-> norm[SetMin(bad)].error]
        ELSE [ok |-> TRUE,
              entities |-> [p \in 1..Len(batch) |->
                              [documentId |-> doc,
                               chunkText  |-> batch[p],
                               chunkIndex |-> ChunkIndexOf(base, p - 1),
                               embedding  |-> norm[p].embedding,
                               metadata   |-> [chunkLength |-> batch[p].len]]],
              error |-> "none"]

\* the catch of the batch loop: EmbeddingGenerationError is rethrown,
\* anything else is wrapped in DocumentProcessingError
BatchError_Raw(err) == err
BatchError(err) ==
    IF err = "EmbeddingGenerationError" THEN err ELSE "DocumentProcessingError"

\* the document_chunks rows left when a batch has failed (nothing is undone)
StoreAfterFailure_Rollback(rows, doc) == {r \in rows : r.documentId # doc}
StoreAfterFailure(rows, doc) == rows

(***************************************************************************)
(* document_chunks: INSERT ... ON CONFLICT (document_id, chunk_index)      *)
(***************************************************************************)
SameKey(r, chunk) == r.documentId = chunk.documentId /\ r.chunkIndex = chunk.chunkIndex

Upsert_AlwaysInsert(rows, chunk, id) ==
    rows \cup {[id |-> id,
                documentId |-> chunk.documentId,
                chunkText  |-> chunk.chunkText,
                chunkIndex |-> chunk.chunkIndex,
                embedding  |-> chunk.embedding,
                metadata   |-> chunk.metadata]}

Upsert(rows, chunk, id) ==
    IF \E r \in rows : SameKey(r, chunk)
    THEN {IF SameKey(r, chunk)
          THEN [r EXCEPT !.chunkText = chunk.chunkText,
                         !.embedding = chunk.embedding,
                         !.metadata  = chunk.metadata]
          ELSE r : r \in rows}
    ELSE rows \cup {[id |-> id,
                     documentId |-> chunk.documentId,
                     chunkText  |-> chunk.chunkText,
                     chunkIndex |-> chunk.chunkIndex,
                     embedding  |-> chunk.embedding,
                     metadata   |-> chunk.metadata]}

\* $5::vector into a vector(VectorDim) column: rejected on any other dimension
CastsToVector(embedding) == Len(embedding) = VectorDim

(***************************************************************************)
(* Search results                                                          *)
(***************************************************************************)
\* rows.map(...) of #vectorSimilaritySearch and #performHybridSearch: one result
ResultOf(row, similarity, score) ==
    [chunk |-> [id |-> row.id, documentId |-> row.documentId,
                chunkText |-> row.chunkText, chunkIndex |-> row.chunkIndex,
                metadata |-> row.metadata],
     document |-> [id |-> row.documentId],
     similarity |-> similarity,
     score |-> score]

(***************************************************************************)
(* Input documents                                                         *)
(***************************************************************************)
Plain(n) == [len |-> n, dot |-> {}, nl |-> {}, sp |-> {}]

Docs ==
    { [len |-> 3, dot |-> {}, nl |-> {1}, sp |-> {0, 2}],          \* white space only
      [len |-> 5, dot |-> {2}, nl |-> {}, sp |-> {0, 4}],          \* " a.a "
      Plain(2500),
      [Plain(2500) EXCEPT !.sp = {0, 999, 1000, 2499}],
      [Plain(2500) EXCEPT !.dot = {600}],
      [Plain(2500) EXCEPT !.nl = {1700}],
      [Plain(2500) EXCEPT !.sp = 800..1799],
      Plain(8200),                                                 \* 10 chunks: one full batch
      Plain(9000),                                                 \* 11 chunks: two batches
      [Plain(9000) EXCEPT !.dot = {8500}] }                        \* 12 chunks

MimeTypes == {"text/plain", "application/zip"}

\* rows of a document ingested before the run that is followed
EarlierRows ==
    {[id |-> 1, documentId |-> 1, chunkText |-> Plain(4), chunkIndex |-> 0,
      embedding |-> [d \in 1..VectorDim |-> d], metadata |-> [chunkLength |-> 4]],
     [id |-> 2, documentId |-> 1, chunkText |-> Plain(2), chunkIndex |-> 1,
      embedding |-> [d \in 1..VectorDim |-> d + 1], metadata |-> [chunkLength |-> 2]]}

\* cache entries written while the earlier document was the only one: the
\* result list of a search and a document listing
EarlierEntries ==
    {[key |-> [prefix |-> "search", hash |-> [question |-> <<"cat">>, props |-> <<>>]],
      value |-> [parses |-> TRUE,
                 data |-> <<ResultOf(CHOOSE r \in EarlierRows : r.id = 1, 100, 100)>>]],
     [key |-> DocumentsKey, value |-> [parses |-> TRUE, data |-> <<>>]]}

(***************************************************************************)
(* processDocument, step by step (one action per awaited call)             *)
(***************************************************************************)
Fail(err) ==
    /\ pc' = "failed"
    /\ error' = err

\* processDocument is called; extractText runs; the empty-text check
ProcessDocument ==
    /\ pc = "idle"
    /\ \E buffer \in Docs, mimeType \in MimeTypes :
          IF mimeType # "text/plain"
          THEN /\ Fail("DocumentProcessingError")
               /\ UNCHANGED text
          ELSE /\ text' = buffer
               /\ IF buffer.len = 0 \/ Trim(buffer).len = 0
                  THEN Fail("EmptyDocumentError")
                  ELSE pc' = "saveDocument" /\ UNCHANGED error
    /\ UNCHANGED <<chunkSize, overlap, start, chunks, windows, cpc, kvars, svars, qvars>>
    /\ UNCHANGED <<savedDocument, documents, store, i, responses, chunkEntities, j, nextId>>

\* documentRepository.save, then chunkText and the empty-chunks check
SaveDocument ==
    /\ pc = "saveDocument"
    /\ \E saved \in BOOLEAN :
          IF ~saved
          THEN /\ Fail("DatabaseError")
               /\ UNCHANGED <<savedDocument, documents, chunks, nextId>>
          ELSE /\ savedDocument' = nextId
               /\ nextId' = nextId + 1
               /\ documents' = documents \cup {[id |-> nextId, content |-> text]}
               /\ chunks' = ChunkText(text, TargetSize, Overlap)
               /\ IF Len(chunks') = 0
                  THEN Fail("DocumentProcessingError")
                  ELSE pc' = "embed" /\ UNCHANGED error
    /\ i' = 0
    /\ UNCHANGED <<text, chunkSize, overlap, start, windows, cpc, kvars, svars, qvars>>
    /\ UNCHANGED <<store, responses, chunkEntities, j>>

\* the batch chunks.slice(i, i + batchSize)
Batch_Whole == chunks
Batch == SubSeq(chunks, i + 1, Min2(i + batchSize, Len(chunks)))

\* openAIService.generateEmbeddings(batch), the length check and batch.map
GenerateEmbeddings ==
    /\ pc = "embed"
    /\ \E outcome \in ProviderOutcomes(Len(Batch), i) :
          LET embeddings == generateEmbeddings(Batch, outcome)
              built == BuildEntities(Batch, embeddings.value, i, savedDocument)
          IN  /\ responses' = Append(responses, outcome)
              /\ IF ~embeddings.ok
                 THEN /\ Fail(BatchError(embeddings.error))
                      /\ store' = StoreAfterFailure(store, savedDocument)
                      /\ UNCHANGED chunkEntities
                 ELSE IF Len(embeddings.value) # Len(Batch)
                 THEN /\ Fail(BatchError("EmbeddingGenerationError"))
                      /\ store' = StoreAfterFailure(store, savedDocument)
                      /\ UNCHANGED chunkEntities
                 ELSE IF ~built.ok
                 THEN /\ Fail(BatchError(built.error))
                      /\ store' = StoreAfterFailure(store, savedDocument)
                      /\ UNCHANGED chunkEntities
                 ELSE /\ chunkEntities' = built.entities
                      /\ pc' = "save"
                      /\ UNCHANGED <<error, store>>
    /\ j' = 0
    /\ UNCHANGED <<cvars, kvars, svars, qvars>>
    /\ UNCHANGED <<savedDocument, documents, i, nextId>>

\* one queryRunner.query(INSERT ...) of #saveChunksWithEmbeddings
SaveChunk ==
    /\ pc = "save"
    /\ j < Len(chunkEntities)
    /\ \E accepted \in BOOLEAN :
          IF accepted /\ CastsToVector(chunkEntities[j + 1].embedding)
          THEN /\ store' = Upsert(store, chunkEntities[j + 1], nextId)
               /\ nextId' = nextId + 1
               /\ j' = j + 1
               /\ UNCHANGED <<pc, error>>
          ELSE /\ Fail(BatchError("QueryFailedError"))
               /\ store' = StoreAfterFailure(store, savedDocument)
               /\ UNCHANGED <<j, nextId>>
    /\ UNCHANGED <<cvars, kvars, svars, qvars>>
    /\ UNCHANGED <<savedDocument, documents, i, responses, chunkEntities>>

\* every entity is written: queryRunner.release(), then i += batchSize
BatchSaved ==
    /\ pc = "save"
    /\ j = Len(chunkEntities)
    /\ i' = i + batchSize
    /\ pc' = IF i + batchSize < Len(chunks) THEN "embed" ELSE "invalidate"
    /\ chunkEntities' = <<>>
    /\ j' = 0
    /\ UNCHANGED <<cvars, kvars, svars, qvars>>
    /\ UNCHANGED <<savedDocument, documents, store, responses, error, nextId>>

\* redisClient.delPattern('documents:*') (a failure is logged and dropped),
\* then return savedDocument
InvalidateCache ==
    /\ pc = "invalidate"
    /\ \E fails \in BOOLEAN : cache' = DelPattern(cache, "documents", redisReady, fails)
    /\ pc' = "done"
    /\ UNCHANGED <<cvars, redisReady, svars, qvars>>
    /\ UNCHANGED <<savedDocument, documents, store, i, responses, chunkEntities, j, error, nextId>>

(***************************************************************************)
(* deleteDocument, step by step (one action per awaited call)              *)
(***************************************************************************)
\* documentRepository.delete(documentId); the chunk rows go with the document
\* (ON DELETE CASCADE); an error is logged and rethrown
DeleteDocument ==
    /\ pc = "idle"
    /\ \E documentId \in 1..2, deleted \in BOOLEAN :
          IF ~deleted
          THEN /\ Fail("QueryFailedError")
               /\ UNCHANGED <<documents, store>>
          ELSE /\ documents' = {d \in documents : d.id # documentId}
               /\ store' = {r \in store : r.documentId # documentId}
               /\ pc' = "sweepDocuments"
               /\ UNCHANGED error
    /\ UNCHANGED <<cvars, kvars, svars, qvars>>
    /\ UNCHANGED <<savedDocument, i, responses, chunkEntities, j, nextId>>

\* redisClient.delPattern('documents:*')
DeleteSweepDocuments ==
    /\ pc = "sweepDocuments"
    /\ \E fails \in BOOLEAN : cache' = DelPattern(cache, "documents", redisReady, fails)
    /\ pc' = "sweepSearch"
    /\ UNCHANGED <<cvars, redisReady, svars, qvars>>
    /\ UNCHANGED <<savedDocument, documents, store, i, responses, chunkEntities, j, error, nextId>>

\* redisClient.delPattern('search:*'), then return
DeleteSweepSearch ==
    /\ pc = "sweepSearch"
    /\ \E fails \in BOOLEAN : cache' = DelPattern(cache, "search", redisReady, fails)
    /\ pc' = "deleted"
    /\ UNCHANGED <<cvars, redisReady, svars, qvars>>
    /\ UNCHANGED <<savedDocument, documents, store, i, responses, chunkEntities, j, error, nextId>>

(***************************************************************************)
(* Properties of processDocument (checked under Spec)                      *)
(***************************************************************************)
\* the document_chunks rows that belong to the Document saved by this run
RunRows == {r \in store : r.documentId = savedDocument}

\* number of chunks in batch b (1-based) of this run
BatchLen(b) == Min2(batchSize, Len(chunks) - batchSize * (b - 1))

\* the numbers of a provider value read left to right: a flat sequence as it
\* is, a nested sequence without its inner brackets, a scalar on its own
RECURSIVE Leaves(_)
Leaves(raw) ==
    CASE raw.kind = "number" -> <<raw.num>>
      [] raw.kind = "null"   -> <<>>
      [] raw.kind = "array"  ->
            IF raw.items = <<>> THEN <<>>
            ELSE Leaves(Head(raw.items)) \o Leaves(Arr(Tail(raw.items)))

\* no '.', no newline, and each of the three windows taken from a text of
\* 2500 characters holds a character that is not white space
ThreePlainWindows(t) ==
    /\ t.dot = {}
    /\ t.nl = {}
    /\ \E p \in 0..999 : p \notin t.sp
    /\ \E p \in 800..1799 : p \notin t.sp
    /\ \E p \in 1600..2499 : p \notin t.sp

ThreeRowsStored ==
    /\ Len(chunks) = 3
    /\ Cardinality(RunRows) = 3
    /\ {r.chunkIndex : r \in RunRows} = {0, 1, 2}
    /\ \A r \in RunRows : r.chunkText.len > 0

C6_RowsFollowBatchOrder ==
    pc = "done" =>
        /\ Len(responses) = (Len(chunks) + batchSize - 1) \div batchSize
        /\ \A b \in 1..Len(responses) : Len(responses[b].value) = BatchLen(b)
        /\ Cardinality(RunRows) = Len(chunks)
        /\ \A k \in 0..(Len(chunks) - 1) :
              \E r \in RunRows :
                 /\ r.chunkIndex = k
                 /\ r.chunkText = chunks[k + 1]
                 /\ r.embedding =
                       Leaves(responses[(k \div batchSize) + 1].value[(k % batchSize) + 1])

\* a run of two batches succeeded and the second answer began with a nested vector
C6_Witness ==
    /\ pc = "done"
    /\ Len(chunks) > batchSize
    /\ Len(responses) = 2
    /\ responses[2].value[1] = RawNested(batchSize)
    /\ \E r \in RunRows : r.chunkIndex = batchSize /\ r.embedding = Leaves(RawNested(batchSize))

\* the entities of the current batch whose key is in the table
WrittenOfBatch ==
    {p \in 1..Len(chunkEntities) : \E r \in store : SameKey(r, chunkEntities[p])}

\* C7: when the write of a batch has ended, all of its rows are in the table
\* or none is; none is when the write failed.
C7_BatchWriteAtomic ==
    /\ (pc = "failed" /\ chunkEntities # <<>>) => WrittenOfBatch = {}
    /\ (pc = "save" /\ j = Len(chunkEntities)) => WrittenOfBatch = 1..Len(chunkEntities)

\* an answer of the wrong length, or with an element that is absent or has
\* no number in it
BadResponse(outcome, m) ==
    /\ outcome.kind = "array"
    /\ \/ Len(outcome.value) # m
       \/ \E p \in 1..Len(outcome.value) : Leaves(outcome.value[p]) = <<>>

\* C8: a batch whose answer has the wrong length, or an absent or empty
\* element, fails, and no row of that batch is in the table.
C8_BadResponseWritesNothing ==
    \A b \in 1..Len(responses) :
        BadResponse(responses[b], BatchLen(b)) =>
            /\ pc = "failed"
            /\ b = Len(responses)
            /\ ~\E r \in RunRows :
                  /\ r.chunkIndex >= batchSize * (b - 1)
                  /\ r.chunkIndex < batchSize * b

\* the second batch failed on an absent last element, the first batch is stored
C8_Witness ==
    /\ pc = "failed"
    /\ Len(responses) = 2
    /\ responses[2].kind = "array"
    /\ Len(responses[2].value) = BatchLen(2)
    /\ responses[2].value[BatchLen(2)] = Null
    /\ Cardinality(RunRows) = batchSize

\* C9: the step in which a batch fails leaves every row written by the
\* earlier batches of the run in the table, unchanged.
C9_FailureKeepsEarlierBatches ==
    [][(pc # "failed" /\ pc' = "failed")
          => \A r \in store :
                (r.documentId = savedDocument /\ r.chunkIndex < i) => r \in store']_vars

\* the second batch failed while being written; the ten rows of the first remain
C9_Witness ==
    /\ pc = "failed"
    /\ i = batchSize
    /\ chunkEntities # <<>>
    /\ \A k \in 0..(batchSize - 1) :
          \E r \in RunRows : r.chunkIndex = k /\ r.chunkText = chunks[k + 1]

Init ==
    /\ text = EmptyStr
    /\ chunkSize = TargetSize
    /\ overlap = Overlap
    /\ start = 0
    /\ chunks = <<>>
    /\ windows = <<>>
    /\ cpc = "entry"
    /\ pc = "idle"
    /\ savedDocument = 0
    /\ i = 0
    /\ responses = <<>>
    /\ chunkEntities = <<>>
    /\ j = 0
    /\ error = "none"
    /\ \E earlier \in BOOLEAN :
          /\ documents = IF earlier THEN {[id |-> 1, content |-> Plain(5)]} ELSE {}
          /\ store = IF earlier THEN EarlierRows ELSE {}
          /\ nextId = IF earlier THEN 3 ELSE 1
          /\ cache \in IF earlier THEN SUBSET EarlierEntries ELSE {{}}
    /\ redisReady \in BOOLEAN
    /\ NoSearch

(***************************************************************************)
(* C11: once processDocument has returned a document, or deleteDocument    *)
(* has returned, no cache entry written before the call is left: neither   *)
(* a search: entry nor a documents: entry.  (Nothing writes to the cache   *)
(* during these calls, so every entry present was written before.)         *)
(***************************************************************************)
C11_MutationClearsCache ==
    pc \in {"done", "deleted"} => cache = {}

\* the error classes of processDocument that extend AppError
AppErrors == {"DocumentProcessingError", "EmptyDocumentError", "DatabaseError",
              "EmbeddingGenerationError"}

\* every chunk of the run has its row, under the Document the run saved
AllPersisted ==
    /\ \E d \in documents : d.id = savedDocument
    /\ Len(chunks) > 0
    /\ \A k \in 0..(Len(chunks) - 1) :
          \E r \in RunRows : r.chunkIndex = k /\ r.chunkText = chunks[k + 1]

\* a step of processDocument
ProcessStep == ProcessDocument \/ SaveDocument \/ GenerateEmbeddings \/ SaveChunk
                  \/ BatchSaved \/ InvalidateCache

(***************************************************************************)
(* C21: processDocument either returns the saved Document, and then every  *)
(* batch was embedded and written, or throws an error of an AppError       *)
(* class; it does not return while a chunk has no row; the final cache     *)
(* invalidation always ends in the return, whether or not it failed.       *)
(***************************************************************************)
C21_NoPartialSuccess ==
    /\ [](pc \in {"invalidate", "done"} => AllPersisted)
    /\ [][(ProcessStep /\ pc' = "failed") => error' \in AppErrors]_vars
    /\ [][pc = "invalidate" => (pc' = "done" /\ error' = "none")]_vars

\* a run of two batches returned although its cache invalidation had failed
C21_Witness ==
    /\ pc = "done"
    /\ Len(responses) = 2
    /\ AllPersisted
    /\ \E e \in cache : e.key.prefix = "documents"

\* every chunk of the batches before the current one has its row
EarlierWritten ==
    /\ i % batchSize = 0
    /\ \A k \in 0..(i - 1) : \E r \in RunRows : r.chunkIndex = k

(***************************************************************************)
(* C24: the batches are taken one after the other in increasing index      *)
(* order: the provider is asked for batch k + 1 only when every row of     *)
(* batches 1..k is written, it is asked once per batch, the entities of a  *)
(* batch are its own chunks, no row of a batch not yet asked for exists,   *)
(* and once a batch has failed no further call or write is made.           *)
(***************************************************************************)
C24_BatchesSequential ==
    /\ [](pc = "embed" => (Len(responses) = i \div batchSize /\ EarlierWritten))
    /\ [](pc = "save" =>
            /\ Len(responses) = (i \div batchSize) + 1
            /\ EarlierWritten
            /\ Len(chunkEntities) = BatchLen(Len(responses))
            /\ \A p \in 1..Len(chunkEntities) :
                  /\ chunkEntities[p].chunkIndex = i + p - 1
                  /\ chunkEntities[p].chunkText = chunks[i + p])
    /\ [](savedDocument # 0 =>
            \A r \in RunRows : r.chunkIndex < batchSize * Len(responses))
    /\ [][responses' # responses =>
            (pc = "embed" /\ Len(responses') = Len(responses) + 1)]_vars
    /\ [][pc = "failed" => UNCHANGED <<responses, store>>]_vars

\* the first batch of ten is written and the second is about to be embedded
C24_Witness ==
    /\ pc = "embed"
    /\ i = batchSize
    /\ Len(responses) = 1
    /\ Len(chunks) > batchSize
    /\ Cardinality(RunRows) = batchSize

(***************************************************************************)
(* C28: when a run of processDocument has failed, the Document row the run *)
(* saved is not in the documents table.                                    *)
(***************************************************************************)
C28_FailureLeavesNoDocument ==
    pc = "failed" => ~\E d \in documents : d.id = savedDocument

\* the ids of the Document rows in the table
DocumentIds == {d.id : d \in documents}

(***************************************************************************)
(* C29: every row of document_chunks that a step of processDocument writes *)
(* or rewrites has as documentId the id of the Document the run saved,     *)
(* which is a row of the documents table; and every chunk row in the table *)
(* belongs to a Document that exists.                                      *)
(***************************************************************************)
C29_ChunksCarrySavedDocument ==
    /\ [][(ProcessStep /\ store' # store)
            => /\ savedDocument \in DocumentIds
               /\ \A r \in store' \ store : r.documentId = savedDocument]_vars
    /\ [](\A r \in store : r.documentId \in DocumentIds)

\* a run beside an earlier document has written rows of its own
C29_Witness ==
    /\ pc = "save"
    /\ j > 1
    /\ \E r \in store : r.documentId = 1
    /\ savedDocument = 3
    /\ Cardinality(RunRows) = j

Next ==
    \/ ProcessDocument
    \/ SaveDocument
    \/ GenerateEmbeddings
    \/ SaveChunk
    \/ BatchSaved
    \/ InvalidateCache
    \/ DeleteDocument
    \/ DeleteSweepDocuments
    \/ DeleteSweepSearch

Spec == Init /\ [][Next]_vars

(***************************************************************************)
(* #saveChunksWithEmbeddings on its own: the method is called again and    *)
(* again with entities drawn from a small set, so that the INSERT meets    *)
(* keys that are already in the table (SpecUpsert)                         *)
(***************************************************************************)
MaxWrites == 3       \* SpecUpsert stops calling once this many ids are used

\* two versions of the content of a chunk
VersionText(v) == Plain(v)
VersionEmbedding(v) == [d \in 1..VectorDim |-> 10 * v + d]

UpsertEntities ==
    {[documentId |-> doc,
      chunkText  |-> VersionText(v),
      chunkIndex |-> k,
      embedding  |-> VersionEmbedding(v),
      metadata   |-> [chunkLength |-> VersionText(v).len]] :
        doc \in 1..2, k \in 0..1, v \in 1..2}

\* #saveChunksWithEmbeddings(chunks) is called with one or two entities
CallSave ==
    /\ pc \in {"idle", "failed"}
    /\ nextId <= MaxWrites
    /\ \E e1 \in UpsertEntities, e2 \in UpsertEntities, n \in 1..2 :
          chunkEntities' = IF n = 1 THEN <<e1>> ELSE <<e1, e2>>
    /\ j' = 0
    /\ pc' = "save"
    /\ error' = "none"
    /\ UNCHANGED <<cvars, kvars, svars, qvars>>
    /\ UNCHANGED <<savedDocument, documents, store, i, responses, nextId>>

\* every entity is written: the method returns
SaveReturn ==
    /\ pc = "save"
    /\ j = Len(chunkEntities)
    /\ pc' = "idle"
    /\ UNCHANGED <<cvars, kvars, svars, qvars>>
    /\ UNCHANGED <<savedDocument, documents, store, i, responses, chunkEntities, j, error, nextId>>

\* C10: the table never holds two rows with the same (documentId,
\* chunkIndex), and an INSERT whose key is already in the table leaves the
\* number of rows as it was and leaves under that key the text, embedding and
\* metadata just written.
C10_UpsertKeyedByDocumentAndIndex ==
    /\ [](\A r1 \in store, r2 \in store :
             (r1.documentId = r2.documentId /\ r1.chunkIndex = r2.chunkIndex) => r1 = r2)
    /\ [][(pc = "save" /\ j' = j + 1 /\ \E r \in store : SameKey(r, chunkEntities[j + 1]))
             => /\ Cardinality(store') = Cardinality(store)
                /\ \E r \in store' :
                      /\ SameKey(r, chunkEntities[j + 1])
                      /\ r.chunkText = chunkEntities[j + 1].chunkText
                      /\ r.embedding = chunkEntities[j + 1].embedding
                      /\ r.metadata = chunkEntities[j + 1].metadata]_vars

\* the last INSERT met a row written by an earlier one (its id is older)
\* and the row now holds the content given to that INSERT
C10_Witness ==
    /\ pc = "save"
    /\ j > 0
    /\ Cardinality(store) < nextId - 1
    /\ \E r \in store :
          /\ SameKey(r, chunkEntities[j])
          /\ r.id < nextId - 1
          /\ r.chunkText = chunkEntities[j].chunkText
          /\ r.embedding = chunkEntities[j].embedding

InitUpsert ==
    /\ text = EmptyStr
    /\ chunkSize = TargetSize
    /\ overlap = Overlap
    /\ start = 0
    /\ chunks = <<>>
    /\ windows = <<>>
    /\ cpc = "entry"
    /\ pc = "idle"
    /\ savedDocument = 0
    /\ documents = {[id |-> 1, content |-> Plain(5)], [id |-> 2, content |-> Plain(5)]}
    /\ store = {}
    /\ nextId = 1
    /\ i = 0
    /\ responses = <<>>
    /\ chunkEntities = <<>>
    /\ j = 0
    /\ error = "none"
    /\ cache = {}
    /\ redisReady = TRUE
    /\ NoSearch

NextUpsert == CallSave \/ SaveChunk \/ SaveReturn

SpecUpsert == InitUpsert /\ [][NextUpsert]_vars

(***************************************************************************)
(* SearchService: the arguments of search and hybridSearch                 *)
(*                                                                         *)
(* A query is a sequence of tokens: words and white space (" ").  An       *)
(* options object is the sequence of its properties in insertion order;    *)
(* a property holds its name and its value.  Thresholds, similarities,     *)
(* ranks and scores are held in thousandths (0.7 is 700).                  *)
(***************************************************************************)
Scale == 1000

Undefined == [kind |-> "undefined", num |-> 0]
JsNumber(n) == [kind |-> "number", num |-> n]
JsString(n) == [kind |-> "string", num |-> n]     \* a document id; 0 is the empty string
JsBool(b) == [kind |-> "boolean", num |-> IF b THEN 1 ELSE 0]
Prop(name, value) == [name |-> name, kind |-> value.kind, num |-> value.num]

\* options.<name>
Option(options, name) ==
    IF \E p \in 1..Len(options) : options[p].name = name
    THEN LET p == CHOOSE q \in 1..Len(options) : options[q].name = name
         IN  [kind |-> options[p].kind, num |-> options[p].num]
    ELSE Undefined

\* a destructuring default: `= d` applies to undefined only
Default(value, d) == IF value.kind = "undefined" THEN d ELSE value.num

DefaultLimit == 10
DefaultThreshold == 700
MaxLimit == 100

limitOf(options) == Default(Option(options, "limit"), DefaultLimit)
thresholdOf(options) == Default(Option(options, "threshold"), DefaultThreshold)
documentIdOf(options) == Option(options, "documentId")
useCacheOf(options) == Default(Option(options, "useCache"), 1) = 1

\* !query || query.trim().length === 0
InvalidQuery(query) == \A k \in 1..Len(query) : query[k] = " "

InvalidLimit_NoUpper(limit) == limit < 1
InvalidLimit(limit) == limit < 1 \/ limit > MaxLimit

InvalidThreshold(threshold) == threshold < 0 \/ threshold > Scale

\* JSON.stringify({ question, ...options }): the properties in insertion
\* order, those whose value is undefined left out
Stringify(question, options) ==
    [question |-> question,
     props |-> SelectSeq(options, LAMBDA p : p.kind # "undefined")]

\* #getCacheKey
getCacheKey(question, options) ==
    [prefix |-> "search", hash |-> Stringify(question, options)]

\* { ...options, hybrid: true }: an own property keeps its place and takes
\* the new value, a new one goes last
WithHybrid(options) ==
    IF \E p \in 1..Len(options) : options[p].name = "hybrid"
    THEN [p \in 1..Len(options) |->
            IF options[p].name = "hybrid" THEN Prop("hybrid", JsBool(TRUE)) ELSE options[p]]
    ELSE Append(options, Prop("hybrid", JsBool(TRUE)))

Throw(err) ==
    /\ spc' = "thrown"
    /\ thrown' = err

\* search up to its first await: destructuring, validation, cache key
SearchEntry(via, query, options) ==
    /\ request' = [method |-> "search", via |-> via, query |-> query, options |-> options]
    /\ IF InvalidQuery(query)
       THEN Throw(Err("InvalidSearchQueryError", "query")) /\ UNCHANGED cacheKey
       ELSE IF InvalidLimit(limitOf(options))
       THEN Throw(Err("SearchError", "limit")) /\ UNCHANGED cacheKey
       ELSE /\ cacheKey' = getCacheKey(query, options)
            /\ spc' = IF useCacheOf(options) THEN "cacheGet" ELSE "embedFirst"
            /\ UNCHANGED thrown

\* hybridSearch up to its first await
HybridEntry(via, question, options) ==
    /\ request' = [method |-> "hybridSearch", via |-> via, query |-> question, options |-> options]
    /\ IF InvalidQuery(question)
       THEN Throw(Err("InvalidSearchQueryError", "query")) /\ UNCHANGED cacheKey
       ELSE IF InvalidLimit(limitOf(options))
       THEN Throw(Err("SearchError", "limit")) /\ UNCHANGED cacheKey
       ELSE IF InvalidThreshold(thresholdOf(options))
       THEN Throw(Err("SearchError", "threshold")) /\ UNCHANGED cacheKey
       ELSE /\ cacheKey' = getCacheKey(question, WithHybrid(options))
            /\ spc' = IF useCacheOf(options) THEN "cacheGet" ELSE "embed"
            /\ UNCHANGED thrown

(***************************************************************************)
(* The document_chunks rows that are searched, and the SQL of the two      *)
(* queries.  In these rows chunk_text is a sequence of tokens, as a query  *)
(* is.                                                                     *)
(***************************************************************************)
NullVector == <<>>                   \* embedding IS NULL

\* a vector of VectorDim components: v, then zeros
Pad(v) == [d \in 1..VectorDim |-> IF d <= Len(v) THEN v[d] ELSE 0]

\* every embedding is a non-zero vector, as is every query embedding
SearchRows ==
    {[id |-> 1, documentId |-> 1, chunkIndex |-> 0, chunkText |-> <<"cat">>,
      embedding |-> Pad(<<3, 4>>), metadata |-> [chunkLength |-> 1]],
     [id |-> 2, documentId |-> 1, chunkIndex |-> 1, chunkText |-> <<"dog", " ", "cat", " ", "cat">>,
      embedding |-> Pad(<<4, 3>>), metadata |-> [chunkLength |-> 5]],
     [id |-> 3, documentId |-> 1, chunkIndex |-> 2, chunkText |-> <<"dog", " ", "dog">>,
      embedding |-> Pad(<<1, 0>>), metadata |-> [chunkLength |-> 3]],
     [id |-> 4, documentId |-> 2, chunkIndex |-> 0, chunkText |-> <<"the", " ", "cat">>,
      embedding |-> Pad(<<0, 1>>), metadata |-> [chunkLength |-> 3]],
     [id |-> 5, documentId |-> 2, chunkIndex |-> 1, chunkText |-> <<"cat", " ", "dog">>,
      embedding |-> NullVector, metadata |-> [chunkLength |-> 3]],
     [id |-> 6, documentId |-> 2, chunkIndex |-> 2, chunkText |-> <<"cat">>,
      embedding |-> Pad(<<-1, 0>>), metadata |-> [chunkLength |-> 1]],
     [id |-> 7, documentId |-> 2, chunkIndex |-> 3, chunkText |-> <<"cat", " ", "cat">>,
      embedding |-> Pad(<<3, 4>>), metadata |-> [chunkLength |-> 3]]}

RECURSIVE DotUpTo(_, _, _)
DotUpTo(a, b, n) == IF n = 0 THEN 0 ELSE a[n] * b[n] + DotUpTo(a, b, n - 1)
Dot(a, b) == DotUpTo(a, b, Len(a))

\* the Euclidean norm; the vectors used have whole norms
Norm(a) == CHOOSE n \in 0..Dot(a, a) : n * n = Dot(a, a)

\* the pgvector operator <=> : 1 - cos(a, b)
CosineDistance(a, b) == Scale - (Scale * Dot(a, b)) \div (Norm(a) * Norm(b))

\* the text search configuration 'english': stop words are dropped
StopWords == {"the"}
Lexemes(tokens) == {tokens[k] : k \in {q \in 1..Len(tokens) : tokens[q] \notin StopWords \cup {" "}}}

\* to_tsvector('english', chunk_text) @@ plainto_tsquery('english', question):
\* every lexeme of the question is in the text; an empty tsquery matches nothing
TextMatch_Any(chunkText, question) == TRUE
TextMatch(chunkText, question) ==
    Lexemes(question) # {} /\ Lexemes(question) \subseteq Lexemes(chunkText)

\* ts_rank(to_tsvector(chunk_text), plainto_tsquery(question)): stands for the
\* rank function, which grows with the occurrences of the query lexemes
TsRank(chunkText, question) ==
    100 * Cardinality({k \in 1..Len(chunkText) : chunkText[k] \in Lexemes(question)})

\* if (documentId)
Truthy(value) == value.kind # "undefined" /\ value.num # 0

\* the sequences that list the candidates of S by descending `order`
RECURSIVE OrderBy(_)
OrderBy(S) ==
    IF S = {} THEN {<<>>}
    ELSE UNION {{<<c>> \o t : t \in OrderBy(S \ {c})} :
                  c \in {x \in S : \A y \in S : y.order <= x.order}}

\* LIMIT
Limit_OneMore(s, limit) == SubSeq(s, 1, Min2(limit + 1, Len(s)))
Limit(s, limit) == SubSeq(s, 1, Min2(limit, Len(s)))

\* the WHERE clause of #vectorSimilaritySearch, with the selected similarity
VectorWhere_NoThreshold(rows, q, threshold, documentId) ==
    {[row |-> r, similarity |-> Scale - CosineDistance(r.embedding, q), rank |-> 0,
      order |-> 0 - CosineDistance(r.embedding, q)] :
        r \in {x \in rows :
                 /\ x.embedding # NullVector
                 /\ (Truthy(documentId) => x.documentId = documentId.num)}}
VectorWhere(rows, q, threshold, documentId) ==
    {[row |-> r, similarity |-> Scale - CosineDistance(r.embedding, q), rank |-> 0,
      order |-> 0 - CosineDistance(r.embedding, q)] :
        r \in {x \in rows :
                 /\ x.embedding # NullVector
                 /\ (Truthy(documentId) => x.documentId = documentId.num)
                 /\ Scale - CosineDistance(x.embedding, q) >= threshold}}

\* #vectorSimilaritySearch: the arrays the query and rows.map can give
vectorSimilaritySearch(rows, q, limit, threshold, documentId) ==
    {[k \in 1..Len(s) |-> ResultOf(s[k].row, s[k].similarity, s[k].similarity)] :
        s \in {Limit(o, limit) : o \in OrderBy(VectorWhere(rows, q, threshold, documentId))}}

VectorWeight == 7      \* 0.7, in tenths
TextWeight == 3        \* 0.3, in tenths

\* vector_similarity * 0.7 + text_rank * 0.3
Blend(similarity, rank) == (VectorWeight * similarity + TextWeight * rank) \div 10

\* the WHERE clause of #performHybridSearch, with the selected columns
HybridWhere_ThresholdOnBlend(rows, q, question, threshold, documentId) ==
    {[row |-> r, similarity |-> Scale - CosineDistance(r.embedding, q),
      rank |-> TsRank(r.chunkText, question),
      order |-> Blend(Scale - CosineDistance(r.embedding, q), TsRank(r.chunkText, question))] :
        r \in {x \in rows :
                 /\ x.embedding # NullVector
                 /\ TextMatch(x.chunkText, question)
                 /\ (Truthy(documentId) => x.documentId = documentId.num)
                 /\ Blend(Scale - CosineDistance(x.embedding, q),
                          TsRank(x.chunkText, question)) >= threshold}}
HybridWhere(rows, q, question, threshold, documentId) ==
    {[row |-> r, similarity |-> Scale - CosineDistance(r.embedding, q),
      rank |-> TsRank(r.chunkText, question),
      order |-> Blend(Scale - CosineDistance(r.embedding, q), TsRank(r.chunkText, question))] :
        r \in {x \in rows :
                 /\ x.embedding # NullVector
                 /\ TextMatch(x.chunkText, question)
                 /\ (Truthy(documentId) => x.documentId = documentId.num)
                 /\ Scale - CosineDistance(x.embedding, q) >= threshold}}

\* #performHybridSearch: the arrays the query and rows.map can give
performHybridSearch(rows, q, question, limit, threshold, documentId) ==
    {[k \in 1..Len(s) |-> ResultOf(s[k].row, s[k].similarity, Blend(s[k].similarity, s[k].rank))] :
        s \in {Limit(o, limit) : o \in OrderBy(HybridWhere(rows, q, question, threshold, documentId))}}

(***************************************************************************)
(* RedisClient.get and RedisClient.set                                     *)
(***************************************************************************)
\* RedisClient.get(key).  `fails`: client.get throws.  ok: no error was met;
\* hit: the value returned is not null; data: the value returned.
RedisGet_ErrorIsHit(entries, key, ready, fails) ==
    IF ~ready \/ fails THEN [ok |-> FALSE, hit |-> TRUE, data |-> <<>>]
    ELSE IF key \notin {e.key : e \in entries} THEN [ok |-> TRUE, hit |-> FALSE, data |-> <<>>]
    ELSE LET value == (CHOOSE e \in entries : e.key = key).value
         IN  IF ~value.parses THEN [ok |-> FALSE, hit |-> TRUE, data |-> <<>>]
             ELSE [ok |-> TRUE, hit |-> TRUE, data |-> value.data]
RedisGet_NeverHit(entries, key, ready, fails) ==
    IF ~ready \/ fails THEN [ok |-> FALSE, hit |-> FALSE, data |-> <<>>]
    ELSE [ok |-> TRUE, hit |-> FALSE, data |-> <<>>]
RedisGet(entries, key, ready, fails) ==
    IF ~ready THEN [ok |-> FALSE, hit |-> FALSE, data |-> <<>>]
    ELSE IF fails THEN [ok |-> FALSE, hit |-> FALSE, data |-> <<>>]
    ELSE IF key \notin {e.key : e \in entries} THEN [ok |-> TRUE, hit |-> FALSE, data |-> <<>>]
    ELSE LET value == (CHOOSE e \in entries : e.key = key).value
         IN  IF ~value.parses THEN [ok |-> FALSE, hit |-> FALSE, data |-> <<>>]
             ELSE [ok |-> TRUE, hit |-> TRUE, data |-> value.data]

\* RedisClient.set(key, value, 3600): the entries on the server afterwards.
\* `fails`: JSON.stringify or client.setEx throws.
RedisSet(entries, key, value, ready, fails) ==
    IF ~ready THEN entries
    ELSE IF fails THEN entries
    ELSE {e \in entries : e.key # key} \cup {[key |-> key, value |-> [parses |-> TRUE, data |-> value]]}

(***************************************************************************)
(* HuggingFaceAIService.generateEmbedding                                  *)
(***************************************************************************)
\* what featureExtraction can answer: an error, or an embedding of the right
\* or of a wrong dimension
ProviderAnswers ==
    {[ok |-> FALSE, embedding |-> <<>>],
     [ok |-> TRUE, embedding |-> Pad(<<1, 0>>)],
     [ok |-> TRUE, embedding |-> Pad(<<3, 4>>)],
     [ok |-> TRUE, embedding |-> [d \in 1..(VectorDim - 1) |-> 1]]}

generateEmbedding(textInput, answer) ==
    IF InvalidQuery(textInput) THEN [ok |-> FALSE, value |-> <<>>, error |-> "EmbeddingGenerationError"]
    ELSE IF ~answer.ok THEN [ok |-> FALSE, value |-> <<>>, error |-> "EmbeddingGenerationError"]
    ELSE [ok |-> TRUE, value |-> answer.embedding, error |-> "none"]

(***************************************************************************)
(* Calls of search and hybridSearch                                        *)
(***************************************************************************)
Queries == {<<>>, <<" ">>, <<"cat">>, <<"the">>, <<"dog", " ", "cat">>}

OptionsSet ==
    {<<>>,
     <<Prop("limit", JsNumber(0))>>,
     <<Prop("limit", JsNumber(MaxLimit + 1))>>,
     <<Prop("limit", JsNumber(1))>>,
     <<Prop("limit", JsNumber(2)), Prop("threshold", JsNumber(500))>>,
     <<Prop("threshold", JsNumber(0)), Prop("limit", JsNumber(MaxLimit))>>,
     <<Prop("threshold", JsNumber(20))>>,
     <<Prop("threshold", JsNumber(Scale + 500))>>,
     <<Prop("threshold", JsNumber(0 - 2 * Scale))>>,
     <<Prop("documentId", JsString(2)), Prop("threshold", JsNumber(0)), Prop("limit", JsNumber(2))>>,
     <<Prop("documentId", JsString(0)), Prop("threshold", JsNumber(Scale))>>,
     <<Prop("hybrid", JsBool(TRUE))>>,
     <<Prop("hybrid", JsBool(TRUE)), Prop("limit", JsNumber(1))>>,
     <<Prop("useCache", JsBool(FALSE))>>}

\* the `input` of the GraphQL query: the fields of the schema's SearchInput
\* (query: String!, limit: Int, threshold: Float, documentId: ID, hybrid: Boolean)
Inputs ==
    [query : {<<" ">>, <<"cat">>},
     limit : {Undefined, JsNumber(0), JsNumber(3)},
     threshold : {Undefined, JsNumber(Scale + 500), JsNumber(600)},
     documentId : {Undefined, JsString(1)},
     hybrid : BOOLEAN]

\* `const { question, ... } = input`: a property the object lacks reads as
\* undefined, shown here as the text without characters (both are falsy)
QuestionOf(in) == IF "question" \in DOMAIN in THEN in.question ELSE <<>>

Log(target, op, ok) == [target |-> target, op |-> op, ok |-> ok]

\* searchService.search(query, options) is called
Search ==
    /\ spc = "idle"
    /\ \E query \in Queries, options \in OptionsSet : SearchEntry("service", query, options)
    /\ UNCHANGED <<queryEmbedding, results, calls>>
    /\ UNCHANGED <<cvars, pvars, kvars, qvars>>

\* searchService.hybridSearch(question, options) is called
HybridSearch ==
    /\ spc = "idle"
    /\ \E question \in Queries, options \in OptionsSet : HybridEntry("service", question, options)
    /\ UNCHANGED <<queryEmbedding, results, calls>>
    /\ UNCHANGED <<cvars, pvars, kvars, qvars>>

\* the resolver Query.search: its checks, then the call of the service
QuerySearch ==
    /\ spc = "idle"
    /\ \E in \in Inputs :
          LET question == QuestionOf(in)
              options == <<Prop("limit", in.limit), Prop("threshold", in.threshold),
                           Prop("documentId", in.documentId)>>
              rejected(err) ==
                 /\ request' = [method |-> IF in.hybrid THEN "hybridSearch" ELSE "search",
                                via |-> "resolver", query |-> question, options |-> options]
                 /\ Throw(err)
                 /\ UNCHANGED cacheKey
          IN  /\ input' = in
              /\ IF InvalidQuery(question)
                 THEN rejected(Err("InvalidSearchQueryError", "query"))
                 ELSE IF in.limit # Undefined /\ InvalidLimit(in.limit.num)
                 THEN rejected(Err("ValidationError", "limit"))
                 ELSE IF in.threshold # Undefined /\ InvalidThreshold(in.threshold.num)
                 THEN rejected(Err("ValidationError", "threshold"))
                 ELSE IF in.hybrid
                 THEN HybridEntry("resolver", question, options)
                 ELSE SearchEntry("resolver", question, options)
    /\ UNCHANGED <<queryEmbedding, results, calls>>
    /\ UNCHANGED <<cvars, pvars, kvars, qa, late>>

\* redisClient.get(cacheKey) and `if (cached) return cached`
CacheGet(miss) ==
    /\ spc = "cacheGet"
    /\ \E fails \in BOOLEAN :
          LET cached == RedisGet(cache, cacheKey, redisReady, fails)
          IN  /\ calls' = Append(calls, Log("redis", "get", cached.ok))
              /\ IF cached.hit
                 THEN results' = cached.data /\ spc' = "returned"
                 ELSE spc' = miss /\ UNCHANGED results
    /\ UNCHANGED <<request, cacheKey, queryEmbedding, thrown>>
    /\ UNCHANGED <<cvars, pvars, kvars, qvars>>

SearchCacheGet ==
    /\ request.method = "search"
    /\ CacheGet("embedFirst")

HybridCacheGet ==
    /\ request.method = "hybridSearch"
    /\ CacheGet("embed")

\* search: the first openAIService.generateEmbedding(query), outside the inner
\* try; the outer catch wraps what it throws
SearchEmbedFirst ==
    /\ spc = "embedFirst"
    /\ \E answer \in ProviderAnswers :
          LET embedding == generateEmbedding(request.query, answer)
          IN  /\ calls' = Append(calls, Log("provider", "generateEmbedding", embedding.ok))
              /\ IF ~embedding.ok
                 THEN Throw(Err("SearchError", "unexpected")) /\ UNCHANGED queryEmbedding
                 ELSE /\ queryEmbedding' = embedding.value
                      /\ spc' = "embed"
                      /\ UNCHANGED thrown
    /\ UNCHANGED <<request, cacheKey, results>>
    /\ UNCHANGED <<cvars, pvars, kvars, qvars>>

\* search: the second generateEmbedding; its EmbeddingGenerationError is
\* wrapped by the outer catch too
SearchEmbed ==
    /\ spc = "embed"
    /\ request.method = "search"
    /\ \E answer \in ProviderAnswers :
          LET embedding == generateEmbedding(request.query, answer)
          IN  /\ calls' = Append(calls, Log("provider", "generateEmbedding", embedding.ok))
              /\ IF ~embedding.ok
                 THEN Throw(Err("SearchError", "unexpected")) /\ UNCHANGED queryEmbedding
                 ELSE /\ queryEmbedding' = embedding.value
                      /\ spc' = "queryFirst"
                      /\ UNCHANGED thrown
    /\ UNCHANGED <<request, cacheKey, results>>
    /\ UNCHANGED <<cvars, pvars, kvars, qvars>>

\* hybridSearch: generateEmbedding; the outer catch rethrows an AppError
HybridEmbed ==
    /\ spc = "embed"
    /\ request.method = "hybridSearch"
    /\ \E answer \in ProviderAnswers :
          LET embedding == generateEmbedding(request.query, answer)
          IN  /\ calls' = Append(calls, Log("provider", "generateEmbedding", embedding.ok))
              /\ IF ~embedding.ok
                 THEN Throw(Err("EmbeddingGenerationError", "")) /\ UNCHANGED queryEmbedding
                 ELSE /\ queryEmbedding' = embedding.value
                      /\ spc' = "query"
                      /\ UNCHANGED thrown
    /\ UNCHANGED <<request, cacheKey, results>>
    /\ UNCHANGED <<cvars, pvars, kvars, qvars>>

\* #vectorSimilaritySearch: the first queryRunner.query, outside the inner try;
\* its rows are dropped
VectorQueryFirst ==
    /\ spc = "queryFirst"
    /\ \E accepted \in BOOLEAN :
          LET ok == accepted /\ CastsToVector(queryEmbedding)
          IN  /\ calls' = Append(calls, Log("database", "query", ok))
              /\ IF ok
                 THEN spc' = "query" /\ UNCHANGED thrown
                 ELSE Throw(Err("SearchError", "unexpected"))
    /\ UNCHANGED <<request, cacheKey, queryEmbedding, results>>
    /\ UNCHANGED <<cvars, pvars, kvars, qvars>>

\* #vectorSimilaritySearch: the second queryRunner.query and rows.map, then
\* back in search
VectorQuery ==
    /\ spc = "query"
    /\ request.method = "search"
    /\ \E accepted \in BOOLEAN :
          LET ok == accepted /\ CastsToVector(queryEmbedding)
          IN  /\ calls' = Append(calls, Log("database", "query", ok))
              /\ IF ok
                 THEN /\ results' \in vectorSimilaritySearch(store, queryEmbedding,
                                         limitOf(request.options), thresholdOf(request.options),
                                         documentIdOf(request.options))
                      /\ spc' = IF useCacheOf(request.options) /\ Len(results') > 0
                                THEN "cacheSet" ELSE "returned"
                      /\ UNCHANGED thrown
                 ELSE Throw(Err("SearchError", "unexpected")) /\ UNCHANGED results
    /\ UNCHANGED <<request, cacheKey, queryEmbedding>>
    /\ UNCHANGED <<cvars, pvars, kvars, qvars>>

\* #performHybridSearch: queryRunner.query and rows.map, then back in
\* hybridSearch
HybridQuery ==
    /\ spc = "query"
    /\ request.method = "hybridSearch"
    /\ \E accepted \in BOOLEAN :
          LET ok == accepted /\ CastsToVector(queryEmbedding)
          IN  /\ calls' = Append(calls, Log("database", "query", ok))
              /\ IF ok
                 THEN /\ results' \in performHybridSearch(store, queryEmbedding, request.query,
                                         limitOf(request.options), thresholdOf(request.options),
                                         documentIdOf(request.options))
                      /\ spc' = IF useCacheOf(request.options) /\ Len(results') > 0
                                THEN "cacheSet" ELSE "returned"
                      /\ UNCHANGED thrown
                 ELSE Throw(Err("DatabaseError", "")) /\ UNCHANGED results
    /\ UNCHANGED <<request, cacheKey, queryEmbedding>>
    /\ UNCHANGED <<cvars, pvars, kvars, qvars>>

\* redisClient.set(cacheKey, results, 3600), then return results
CacheSet ==
    /\ spc = "cacheSet"
    /\ \E fails \in BOOLEAN :
          /\ cache' = RedisSet(cache, cacheKey, results, redisReady, fails)
          /\ calls' = Append(calls, Log("redis", "set", redisReady /\ ~fails))
    /\ spc' = "returned"
    /\ UNCHANGED <<request, cacheKey, queryEmbedding, results, thrown, redisReady>>
    /\ UNCHANGED <<cvars, pvars, qvars>>

SearchCacheSet ==
    /\ request.method = "search"
    /\ CacheSet

HybridCacheSet ==
    /\ request.method = "hybridSearch"
    /\ CacheSet

(***************************************************************************)
(* QAService.answerQuestion                                                *)
(***************************************************************************)
DefaultMaxSources == 5
QAThreshold == 700
NoRelevantAnswer == "I couldn't find relevant information to answer your question."

\* `if (searchResults.length === 0)`
NoResults_Never(searchResults) == FALSE
NoResults(searchResults) == Len(searchResults) = 0

\* searchResults.map(...): the context given to the generator and the sources
\* returned (of a source, the document id and the similarity are kept)
ContextOf(searchResults) ==
    [k \in 1..Len(searchResults) |-> searchResults[k].chunk.chunkText]
SourcesOf(searchResults) ==
    [k \in 1..Len(searchResults) |->
        [documentId |-> searchResults[k].document.id,
         similarity |-> searchResults[k].similarity]]

\* openAIService.generateAnswer(question, context): its two guards, then the
\* completion, which answers or fails
generateAnswer(question, context, completes) ==
    IF InvalidQuery(question) THEN [ok |-> FALSE, error |-> "HuggingFaceAPIError"]
    ELSE IF Len(context) = 0 THEN [ok |-> FALSE, error |-> "HuggingFaceAPIError"]
    ELSE IF ~completes THEN [ok |-> FALSE, error |-> "HuggingFaceAPIError"]
    ELSE [ok |-> TRUE, error |-> "none"]

\* qaService.answerQuestion(question, options) is called; it calls search
AnswerQuestion ==
    /\ spc = "idle"
    /\ qa.pc = "idle"
    /\ \E question \in Queries, maxSources \in {Undefined, JsNumber(0), JsNumber(1)},
          documentId \in {Undefined, JsString(1), JsString(3)} :
          SearchEntry("qa", question,
                      <<Prop("limit", JsNumber(Default(maxSources, DefaultMaxSources))),
                        Prop("documentId", documentId),
                        Prop("threshold", JsNumber(QAThreshold))>>)
    /\ qa' = [NoAnswer EXCEPT !.pc = "search"]
    /\ UNCHANGED <<queryEmbedding, results, calls>>
    /\ UNCHANGED <<cvars, pvars, kvars, input, late>>

\* search has returned or thrown: the catch, the fixed answer, or the context
\* and the call of generateAnswer
AnswerAfterSearch ==
    /\ qa.pc = "search"
    /\ spc \in {"returned", "thrown"}
    /\ qa' = IF spc = "thrown"
             THEN [qa EXCEPT !.pc = "thrown", !.error = "Error"]
             ELSE IF NoResults(results)
             THEN [qa EXCEPT !.pc = "returned", !.answer = NoRelevantAnswer, !.sources = <<>>]
             ELSE [qa EXCEPT !.pc = "generate", !.context = ContextOf(results),
                             !.sources = SourcesOf(results)]
    /\ UNCHANGED <<cvars, pvars, kvars, svars, input, late>>

\* generateAnswer settles: return { answer, sources }, or the catch
AnswerGenerated ==
    /\ qa.pc = "generate"
    /\ \E completes \in BOOLEAN :
          LET answer == generateAnswer(request.query, qa.context, completes)
          IN  /\ calls' = Append(calls, Log("generator", "generateAnswer", answer.ok))
              /\ qa' = IF answer.ok
                       THEN [qa EXCEPT !.pc = "returned", !.answer = "generated"]
                       ELSE [qa EXCEPT !.pc = "thrown", !.error = "Error", !.sources = <<>>]
    /\ UNCHANGED <<spc, request, cacheKey, queryEmbedding, results, thrown>>
    /\ UNCHANGED <<cvars, pvars, kvars, input, late>>

\* an entry written by hybridSearch(<<"cat">>, {}) and an entry whose value is
\* not JSON
SeedEntry ==
    [key |-> getCacheKey(<<"cat">>, WithHybrid(<<>>)),
     value |-> [parses |-> TRUE,
                data |-> CHOOSE r \in performHybridSearch(SearchRows, Pad(<<3, 4>>), <<"cat">>,
                                        DefaultLimit, DefaultThreshold, Undefined) : TRUE]]

CorruptEntry ==
    [key |-> getCacheKey(<<"cat">>, <<>>), value |-> [parses |-> FALSE, data |-> <<>>]]

(***************************************************************************)
(* Claims about the cache key                                              *)
(***************************************************************************)
\* the same properties listed in every order
Reorderings(options) ==
    {[k \in 1..Len(options) |-> options[f[k]]] :
        f \in {g \in [1..Len(options) -> 1..Len(options)] :
                 \A a, b \in 1..Len(options) : g[a] = g[b] => a = b}}

\* the key computed at search:461 or at hybridSearch:632
KeyOf(method, query, options) ==
    IF method = "search" THEN getCacheKey(query, options)
    ELSE getCacheKey(query, WithHybrid(options))

\* a call has passed validation and holds its cache key
Keyed == spc \notin {"idle", "thrown"}

(***************************************************************************)
(* C12: the cache key does not depend on the order in which the options    *)
(* object lists its properties: the key a call computed is the key the     *)
(* same method computes for the same query and every reordering of the     *)
(* same options.                                                           *)
(***************************************************************************)
C12_KeyIgnoresOptionOrder ==
    Keyed => \A other \in Reorderings(request.options) :
                KeyOf(request.method, request.query, other) = cacheKey

(***************************************************************************)
(* C13: for every query and every options value the key search computes    *)
(* differs from the key hybridSearch computes, and a call of search never   *)
(* returns from the cache the list that hybridSearch stored.                *)
(***************************************************************************)
C13_ModesNeverShareKey ==
    /\ Keyed => KeyOf("search", request.query, request.options)
                    # KeyOf("hybridSearch", request.query, request.options)
    /\ ~ /\ request.method = "search"
         /\ spc = "returned"
         /\ calls = <<Log("redis", "get", TRUE)>>
         /\ SeedEntry \in cache
         /\ results = SeedEntry.value.data

(***************************************************************************)
(* Claims about one call of search or hybridSearch                         *)
(***************************************************************************)
Last(s) == s[Len(s)]

\* the call made by this step, if it made one
MadeCall == Len(calls') = Len(calls) + 1

\* the arrays the store can give for the call under way
FromStore ==
    IF request.method = "search"
    THEN vectorSimilaritySearch(store, queryEmbedding, limitOf(request.options),
                                thresholdOf(request.options), documentIdOf(request.options))
    ELSE performHybridSearch(store, queryEmbedding, request.query, limitOf(request.options),
                             thresholdOf(request.options), documentIdOf(request.options))

(***************************************************************************)
(* C14: a cache error in search or hybridSearch (Redis not ready, a        *)
(* transport error, a value that does not parse) is a miss on read and a   *)
(* no-op on write.  It never reaches the caller: an error is thrown only   *)
(* by validation or right after a failed provider or database call; a      *)
(* failed read goes on to the provider; a failed write leaves the cache as *)
(* it was; and a call that returns after a failed read returns an array    *)
(* computed from the store.                                                *)
(***************************************************************************)
C14_CacheFailOpen ==
    /\ [](/\ spc = "thrown" =>
               \/ calls = <<>>
               \/ Last(calls).target \in {"provider", "database"} /\ ~Last(calls).ok
          /\ (spc = "returned" /\ \E k \in 1..Len(calls) : calls[k].op = "get" /\ ~calls[k].ok) =>
               /\ \E k \in 1..Len(calls) : calls[k].target = "database" /\ calls[k].ok
               /\ results \in FromStore)
    /\ [][(MadeCall /\ Last(calls').target = "redis" /\ ~Last(calls').ok) =>
             /\ cache' = cache
             /\ spc' # "thrown"
             /\ Last(calls').op = "get" => spc' \in {"embedFirst", "embed"}]_vars

\* a call has returned a list from the store although both its read and its
\* write of the cache failed
C14_Witness ==
    /\ spc = "returned"
    /\ Len(results) > 0
    /\ \E k \in 1..Len(calls) : calls[k].op = "get" /\ ~calls[k].ok
    /\ \E k \in 1..Len(calls) : calls[k].op = "set" /\ ~calls[k].ok

\* the error classes and messages with which an argument is rejected
RejectedAs(about) ==
    /\ spc = "thrown"
    /\ thrown.class \in {"InvalidSearchQueryError", "SearchError", "ValidationError"}
    /\ thrown.message \in about

C16_InvalidThresholdRejectedFirst ==
    (/\ request.method \in {"search", "hybridSearch"}
     /\ \/ thresholdOf(request.options) < 0
        \/ thresholdOf(request.options) > Scale)
    => RejectedAs({"query", "limit", "threshold"}) /\ calls = <<>>

\* the call under way has its array from the store (not from the cache)
ReturnedFromStore(method) ==
    /\ request.method = method
    /\ spc \in {"cacheSet", "returned"}
    /\ calls # <<>>
    /\ Last(calls).target = "database" \/ Last(calls).op = "set"

\* the row of the store a result was made from
RowOf(result) == CHOOSE r \in store : r.id = result.chunk.id

\* 1 - cosine distance between the row's embedding and the query embedding
SimilarityOf(r) == Scale - CosineDistance(r.embedding, queryEmbedding)

\* the rows a similarity search may return: with an embedding, of the
\* document asked for when a (non-empty) documentId is given, at or above
\* the threshold
Qualifying ==
    {r \in store :
        /\ r.embedding # <<>>
        /\ (Truthy(documentIdOf(request.options)) =>
               r.documentId = documentIdOf(request.options).num)
        /\ SimilarityOf(r) >= thresholdOf(request.options)}

ResultIds == {results[k].chunk.id : k \in 1..Len(results)}

(***************************************************************************)
(* C17: every result of a similarity search computed from the store has    *)
(* similarity >= threshold, is made from a stored row whose embedding is    *)
(* not null, and, when a document filter is given (a non-empty documentId), *)
(* belongs to that document.                                               *)
(***************************************************************************)
C17_ResultsQualify ==
    ReturnedFromStore("search") =>
        \A k \in 1..Len(results) :
            /\ results[k].similarity >= thresholdOf(request.options)
            /\ \E r \in store :
                  /\ r.id = results[k].chunk.id
                  /\ r.embedding # <<>>
                  /\ results[k].similarity = SimilarityOf(r)
            /\ Truthy(documentIdOf(request.options)) =>
                  results[k].chunk.documentId = documentIdOf(request.options).num

\* a filtered search has returned rows while the document also holds a row
\* without embedding and a row below the threshold
C17_Witness ==
    /\ ReturnedFromStore("search")
    /\ spc = "returned"
    /\ Len(results) > 0
    /\ Truthy(documentIdOf(request.options))
    /\ \E r \in store :
          /\ r.documentId = documentIdOf(request.options).num
          /\ r.embedding = <<>>
    /\ \E r \in store :
          /\ r.documentId = documentIdOf(request.options).num
          /\ r.embedding # <<>>
          /\ SimilarityOf(r) < thresholdOf(request.options)

HasLexicalMatch(chunkText) ==
    LET words(tokens) == {tokens[k] : k \in 1..Len(tokens)} \ ({" "} \cup StopWords)
    IN  words(request.query) # {} /\ words(request.query) \subseteq words(chunkText)

(***************************************************************************)
(* C19: hybrid search never returns a row whose text does not match the    *)
(* question lexically, not even the row whose vector similarity is the     *)
(* highest of all rows.                                                    *)
(***************************************************************************)
C19_HybridNeedsLexicalMatch ==
    ReturnedFromStore("hybridSearch") =>
        \A k \in 1..Len(results) :
            /\ HasLexicalMatch(results[k].chunk.chunkText)
            /\ HasLexicalMatch(RowOf(results[k]).chunkText)

\* rows were returned, and the row nearest to the query embedding is not
\* among them because its text does not match
C19_Witness ==
    /\ ReturnedFromStore("hybridSearch")
    /\ spc = "returned"
    /\ Len(results) > 0
    /\ \E r \in store :
          /\ r.embedding # <<>>
          /\ ~HasLexicalMatch(r.chunkText)
          /\ r.id \notin ResultIds
          /\ \A x \in store : x.embedding # <<>> => SimilarityOf(x) <= SimilarityOf(r)
          /\ \A k \in 1..Len(results) : results[k].similarity < SimilarityOf(r)

\* the rows hybrid search chooses from, the threshold left aside
HybridCandidates ==
    {r \in store :
        /\ r.embedding # <<>>
        /\ HasLexicalMatch(r.chunkText)
        /\ (Truthy(documentIdOf(request.options)) =>
               r.documentId = documentIdOf(request.options).num)}

\* 0.7 * vectorScore + 0.3 * lexicalScore, times 10
Combined10(r) == 7 * SimilarityOf(r) + 3 * TsRank(r.chunkText, request.query)

(***************************************************************************)
(* C20: hybrid search orders its results by descending                     *)
(* combined = 0.7 * vectorScore + 0.3 * lexicalScore and reports combined  *)
(* as the score of a result.  The threshold applies to the vector score    *)
(* alone: of the rows that match lexically and pass the other filters, a   *)
(* row with vectorScore < threshold is never returned, whatever its        *)
(* combined score, and a row with vectorScore >= threshold is returned     *)
(* unless `limit` rows of at least its combined score are.                 *)
(***************************************************************************)
C20_HybridBlendAndThreshold ==
    ReturnedFromStore("hybridSearch") =>
        /\ \A k \in 1..(Len(results) - 1) : results[k].score >= results[k + 1].score
        /\ \A k \in 1..Len(results) :
              /\ 10 * results[k].score = Combined10(RowOf(results[k]))
              /\ results[k].similarity = SimilarityOf(RowOf(results[k]))
              /\ results[k].similarity >= thresholdOf(request.options)
        /\ \A r \in HybridCandidates :
              /\ SimilarityOf(r) < thresholdOf(request.options) => r.id \notin ResultIds
              /\ (SimilarityOf(r) >= thresholdOf(request.options) /\ r.id \notin ResultIds) =>
                    /\ Len(results) = limitOf(request.options)
                    /\ \A k \in 1..Len(results) : 10 * results[k].score >= Combined10(r)

\* the blend put a row of lower vector score first, and a row whose
\* combined score is below the threshold was kept
C20_Witness ==
    /\ ReturnedFromStore("hybridSearch")
    /\ spc = "returned"
    /\ \E k \in 1..(Len(results) - 1) :
          /\ results[k].similarity < results[k + 1].similarity
          /\ results[k].score > results[k + 1].score
    /\ \E k \in 1..Len(results) : results[k].score < thresholdOf(request.options)

\* the values stored under the key of the call under way
StoredUnderKey == {e.value : e \in {x \in cache : x.key = cacheKey}}

(***************************************************************************)
(* C25: when the lookup of search or of hybridSearch finds a value stored  *)
(* under the key of the call, the call returns that value and has called   *)
(* neither the embedding provider nor the database.                        *)
(***************************************************************************)
C25_HitSkipsProviderAndStore ==
    /\ [][(/\ spc = "cacheGet"
           /\ MadeCall
           /\ Last(calls').ok
           /\ StoredUnderKey # {})
          => /\ spc' = "returned"
             /\ \E value \in StoredUnderKey : results' = value.data
             /\ calls' = <<Log("redis", "get", TRUE)>>]_vars
    /\ []((spc = "returned" /\ calls # <<>> /\ Last(calls) = Log("redis", "get", TRUE))
            => /\ Len(calls) = 1
               /\ queryEmbedding = <<>>
               /\ \E value \in StoredUnderKey : results = value.data)

\* hybridSearch returned the list stored under its key after one call, the lookup
C25_Witness ==
    /\ spc = "returned"
    /\ request.method = "hybridSearch"
    /\ calls = <<Log("redis", "get", TRUE)>>
    /\ Len(results) > 0
    /\ \E value \in StoredUnderKey : results = value.data

\* the number of calls made to a collaborator by the call under way
CallsTo(target) == Cardinality({k \in 1..Len(calls) : calls[k].target = target})

(***************************************************************************)
(* C26: a call of search that did not return from the cache has made       *)
(* exactly one request to the embedding provider and exactly one query to  *)
(* the database when it returns.                                           *)
(***************************************************************************)
C26_OneEmbeddingOneQuery ==
    ReturnedFromStore("search") =>
        (CallsTo("provider") = 1 /\ CallsTo("database") = 1)

\* the error classes that stand for a failure of the store
StoreFailures == {"DatabaseError", "DatabaseConnectionError"}

(***************************************************************************)
(* C27: when a call of search or of hybridSearch throws right after a      *)
(* failed request to the embedding provider, the error is an               *)
(* EmbeddingGenerationError; when it throws right after a failed database  *)
(* query, the error is of a database error class.                          *)
(***************************************************************************)
C27_FailureKindsDistinct ==
    (spc = "thrown" /\ calls # <<>>) =>
        /\ (Last(calls).target = "provider" /\ ~Last(calls).ok)
              => thrown.class = "EmbeddingGenerationError"
        /\ (Last(calls).target = "database" /\ ~Last(calls).ok)
              => thrown.class \in StoreFailures

\* the limit and the threshold of the GraphQL input are absent or in range
InRange(in) ==
    /\ in.limit = Undefined \/ ~InvalidLimit(in.limit.num)
    /\ in.threshold = Undefined \/ ~InvalidThreshold(in.threshold.num)

(***************************************************************************)
(* C30: a request of the GraphQL query `search` whose input has a query    *)
(* that is not blank, and a limit and a threshold that are absent or in    *)
(* range, is not rejected as an empty query: the resolver calls search, or *)
(* hybridSearch when hybrid is set, with that query.                       *)
(***************************************************************************)
C30_ValidRequestForwarded ==
    (request.via = "resolver" /\ ~InvalidQuery(input.query) /\ InRange(input))
        => /\ ~RejectedAs({"query"})
           /\ request.query = input.query
           /\ request.method = IF input.hybrid THEN "hybridSearch" ELSE "search"
           /\ spc # "idle"

\* generateAnswer has been called
GeneratorCalled ==
    \/ qa.pc = "generate"
    \/ \E k \in 1..Len(calls) : calls[k].target = "generator"

(***************************************************************************)
(* C22: answerQuestion calls the generator only with a context that is not *)
(* empty; when its search returns an empty list it returns the fixed       *)
(* answer with no sources, and the generator has not been called.          *)
(***************************************************************************)
C22_NoGenerationWithoutContext ==
    /\ GeneratorCalled => Len(qa.context) > 0
    /\ (qa.pc \in {"generate", "returned", "thrown"} /\ spc = "returned" /\ results = <<>>)
          => /\ qa.pc = "returned"
             /\ qa.answer = NoRelevantAnswer
             /\ qa.sources = <<>>
             /\ ~GeneratorCalled

\* a question whose search went to the store and found nothing was answered
C22_Witness ==
    /\ qa.pc = "returned"
    /\ request.query = <<"cat">>
    /\ results = <<>>
    /\ \E k \in 1..Len(calls) : calls[k].target = "database" /\ calls[k].ok
    /\ qa.answer = NoRelevantAnswer

InitSearch ==
    /\ text = EmptyStr
    /\ chunkSize = TargetSize
    /\ overlap = Overlap
    /\ start = 0
    /\ chunks = <<>>
    /\ windows = <<>>
    /\ cpc = "entry"
    /\ pc = "idle"
    /\ savedDocument = 0
    /\ documents = {[id |-> 1, content |-> Plain(5)], [id |-> 2, content |-> Plain(5)]}
    /\ store = SearchRows
    /\ nextId = 8
    /\ i = 0
    /\ responses = <<>>
    /\ chunkEntities = <<>>
    /\ j = 0
    /\ error = "none"
    /\ cache \in {{}, {SeedEntry}, {CorruptEntry}}
    /\ redisReady \in BOOLEAN
    /\ NoSearch

NextSearch ==
    \/ Search
    \/ HybridSearch
    \/ QuerySearch
    \/ SearchCacheGet
    \/ HybridCacheGet
    \/ SearchEmbedFirst
    \/ SearchEmbed
    \/ HybridEmbed
    \/ VectorQueryFirst
    \/ VectorQuery
    \/ HybridQuery
    \/ SearchCacheSet
    \/ HybridCacheSet
    \/ AnswerQuestion
    \/ AnswerAfterSearch
    \/ AnswerGenerated

SpecSearch == InitSearch /\ [][NextSearch]_vars

(***************************************************************************)
(* deleteDocument beside calls of search and hybridSearch                  *)
(***************************************************************************)
\* the connection events 'error', 'end' and 'ready' of the Redis client
RedisEvent ==
    /\ redisReady' = ~redisReady
    /\ UNCHANGED <<cvars, pvars, cache, svars, qvars>>

\* the call of search or hybridSearch has settled at its caller
Settle ==
    /\ spc \in {"returned", "thrown"}
    /\ spc' = "idle"
    /\ request' = NoRequest
    /\ cacheKey' = NoKey
    /\ queryEmbedding' = <<>>
    /\ results' = <<>>
    /\ calls' = <<>>
    /\ thrown' = NoError
    /\ late' = FALSE
    /\ UNCHANGED <<cvars, pvars, kvars, input, qa>>

\* a call of search or of hybridSearch, with caching, begins
RaceSearch ==
    /\ spc = "idle"
    /\ \E hybrid \in BOOLEAN, options \in {<<>>, <<Prop("documentId", JsString(1))>>} :
          IF hybrid
          THEN HybridEntry("service", <<"cat">>, options)
          ELSE SearchEntry("service", <<"cat">>, options)
    /\ late' = (pc = "deleted")
    /\ UNCHANGED <<queryEmbedding, results, calls>>
    /\ UNCHANGED <<cvars, pvars, kvars, input, qa>>

(***************************************************************************)
(* C23: a call of search or hybridSearch with caching that began after     *)
(* deleteDocument(d) had returned does not return a result whose document  *)
(* is d, whatever calls were under way during the delete and whether or    *)
(* not the cache could be reached during the sweep.                        *)
(***************************************************************************)
C23_DeletedNeverReturned ==
    (late /\ spc = "returned" /\ useCacheOf(request.options))
        => \A k \in 1..Len(results) : results[k].document.id \in DocumentIds

InitRace ==
    /\ text = EmptyStr
    /\ chunkSize = TargetSize
    /\ overlap = Overlap
    /\ start = 0
    /\ chunks = <<>>
    /\ windows = <<>>
    /\ cpc = "entry"
    /\ pc = "idle"
    /\ savedDocument = 0
    /\ documents = {[id |-> 1, content |-> Plain(5)], [id |-> 2, content |-> Plain(5)]}
    /\ store = SearchRows
    /\ nextId = 8
    /\ i = 0
    /\ responses = <<>>
    /\ chunkEntities = <<>>
    /\ j = 0
    /\ error = "none"
    /\ cache = {}
    /\ redisReady \in BOOLEAN
    /\ NoSearch

NextRace ==
    \/ DeleteDocument
    \/ DeleteSweepDocuments
    \/ DeleteSweepSearch
    \/ RedisEvent
    \/ RaceSearch
    \/ Settle
    \/ SearchCacheGet
    \/ HybridCacheGet
    \/ SearchEmbedFirst
    \/ SearchEmbed
    \/ HybridEmbed
    \/ VectorQueryFirst
    \/ VectorQuery
    \/ HybridQuery
    \/ SearchCacheSet
    \/ HybridCacheSet

SpecRace == InitRace /\ [][NextRace]_vars

====
